---- MODULE Spec2Model ----
(***************************************************************************)
(* Hierarchical ("pyramid") bitmaps of art4711/bmap_find: alloc, set,      *)
(* isset and first_set of the eleven implementations of bmap.c, with the   *)
(* C integer widths and the layout of the single calloc'ed region.         *)
(*                                                                         *)
(* Numbers.  Bit indices reach 2^32 and the 64-bit cursors of the          *)
(* recursive search go beyond it, so a C unsigned value v is the pair      *)
(* <<v \div 2^16, v % 2^16>>.  Pairs are normalised (second component      *)
(* below 2^16), so equal values are equal pairs.                           *)
(*                                                                         *)
(* Words.  A slot word is the set of the indices of its 1 bits.            *)
(***************************************************************************)
EXTENDS Integers, Sequences, FiniteSets, TLC

VARIABLES
    universe,  \* the universe size (nbits) every handle was allocated for
    members,   \* the bits set() has been called with
    simple,    \* the struct simple_bmap of dumb and simple
    p64,       \* the struct p64_bmap of p64 and p64-naive
    p64v2,     \* the struct p64_bmap of p64v2
    p64v3,     \* the struct p64v3_bmap of p64v3, p64v3r, p64v3r2 and p64v3r3
    p8,        \* the struct p8_bmap
    p32,       \* the struct p32_bmap
    wideshift, \* what a 32-bit shift by 32 or more yields in this build
    heap,      \* what calloc returned to the allocs: "ok" or "null"
    nullstores, \* the handles whose alloc stored through a null pointer
    op,        \* the last call of the interface
    dup        \* whether it was a set() of a bit that was a member already

vars == <<universe, members, simple, p64, p64v2, p64v3, p8, p32, wideshift, heap,
         nullstores, op, dup>>

B == 2^16

\* a small non-negative integer as a number pair
I(x) == <<x \div B, x % B>>

Lt(a, b) == a[1] < b[1] \/ (a[1] = b[1] /\ a[2] < b[2])
Le(a, b) == a = b \/ Lt(a, b)

Plus(a, b) == <<a[1] + b[1] + ((a[2] + b[2]) \div B), (a[2] + b[2]) % B>>

\* a - b for b <= a
Minus(a, b) ==
    IF a[2] >= b[2] THEN <<a[1] - b[1], a[2] - b[2]>>
    ELSE <<a[1] - b[1] - 1, a[2] + B - b[2]>>

\* conversion to unsigned int / uint32_t: the value modulo 2^32
U32(a) == <<a[1] % B, a[2]>>

\* the low k bits, k <= 16
LowBits(a, k) == a[2] % (2^k)

RECURSIVE Shr(_, _)
\* a >> s on an operand wide enough for a (uint64_t, size_t)
Shr(a, s) ==
    IF s = 0 THEN a
    ELSE IF s >= 16 THEN Shr(<<a[1] \div B, a[1] % B>>, s - 16)
    ELSE LET p == 2^s
         IN  <<a[1] \div p, (a[2] \div p) + (a[1] % p) * (B \div p)>>

RECURSIVE Shl(_, _)
\* a << s on a 64-bit operand (no value of the model reaches 2^47)
Shl(a, s) ==
    IF s = 0 THEN a
    ELSE IF s >= 16 THEN Shl(<<a[1] * B + a[2], 0>>, s - 16)
    ELSE LET p == 2^s
         IN  <<a[1] * p + ((a[2] * p) \div B), (a[2] * p) % B>>

RECURSIVE Shl32(_, _)
\* a << s on an unsigned int operand, s < 32: the bits shifted out are lost
Shl32(a, s) ==
    IF s = 0 THEN U32(a)
    ELSE IF s >= 16 THEN Shl32(<<a[2], 0>>, s - 16)
    ELSE LET p == 2^s
         IN  U32(<<(a[1] % B) * p + ((a[2] * p) \div B), (a[2] * p) % B>>)

\* a >> s on a uint32_t operand.  A count of 32 or more is undefined in C: the
\* build either yields 0 (the shift carried out in full, ARM) or uses the
\* count modulo 32 (x86).
ShrU32(a, s) ==
    IF s < 32 THEN Shr(U32(a), s)
    ELSE IF wideshift = "zero" THEN I(0) ELSE Shr(U32(a), s % 32)

\* a << s on a uint32_t operand, with the same two outcomes
ShlU32(a, s) ==
    IF s < 32 THEN Shl32(a, s)
    ELSE IF wideshift = "zero" THEN I(0) ELSE Shl32(a, s % 32)

\* unsigned int addition
Plus32(a, b) == U32(Plus(a, b))

BMAP_INVALID_OFF == <<65535, 65535>>

\* __builtin_ffs / __builtin_ffsll of a non-zero word: 1 + index of the lowest 1 bit
ffs(w) == 1 + CHOOSE k \in w : \A j \in w : k <= j

\* ~(mask - 1) & word, for mask == 1 << bit
MaskFrom(bit, w) == {k \in w : k >= bit}

(***************************************************************************)
(* The calloc'ed region.  A handle holds the fields of the C struct and    *)
(* the slot words that follow it: lvl[l+1] is the word address of level    *)
(* l's array (pb->lvl[l]), total the number of words the allocation holds, *)
(* mem the words that are not zero, and past what a read finds behind the  *)
(* end of the allocation (on top of what was stored there).  pb->lvl[l][slot] is plain pointer arithmetic:   *)
(* a slot index past the end of a level's array addresses the next level.  *)
(***************************************************************************)

\* pb->lvl[l][slot] as an rvalue, for words of w bits; a level index outside
\* the pointer table takes whatever lies there for the array's address, and
\* the read finds what is behind the allocation
Load(pb, l, slot, w) ==
    LET a      == Plus(pb.lvl[l + 1], slot)
        stored == IF a \in DOMAIN pb.mem THEN pb.mem[a] ELSE {}
    IN  IF l + 1 \notin DOMAIN pb.lvl THEN {k \in pb.past : k < w}
        ELSE IF Lt(a, pb.total) THEN stored
        ELSE stored \cup {k \in pb.past : k < w}

\* pb->lvl[l][slot] = 1 << bit: what set would do without the "|"
StoreInto(pb, l, slot, bit) ==
    LET a == Plus(pb.lvl[l + 1], slot)
    IN  [pb EXCEPT !.mem = [x \in DOMAIN pb.mem \cup {a} |->
                               IF x = a THEN {bit} ELSE pb.mem[x]]]

\* pb->lvl[l][slot] ^= 1 << bit: what set would do with the wrong operator
FlipInto(pb, l, slot, bit) ==
    LET a   == Plus(pb.lvl[l + 1], slot)
        old == IF a \in DOMAIN pb.mem THEN pb.mem[a] ELSE {}
    IN  [pb EXCEPT !.mem = [x \in DOMAIN pb.mem \cup {a} |->
                               IF x # a THEN pb.mem[x]
                               ELSE IF bit \in old THEN old \ {bit}
                               ELSE old \cup {bit}]]

\* pb->lvl[l][slot] |= 1 << bit
OrInto(pb, l, slot, bit) ==
    LET a   == Plus(pb.lvl[l + 1], slot)
        old == IF a \in DOMAIN pb.mem THEN pb.mem[a] ELSE {}
    IN  [pb EXCEPT !.mem = [x \in DOMAIN pb.mem \cup {a} |->
                               IF x = a THEN old \cup {bit} ELSE pb.mem[x]]]

RECURSIVE Bases(_, _)
\* the pointer walk of an alloc ("pb->lvl[l] = a; a += slots of l"):
\* the addresses of the level arrays, followed by the end address
Bases(slots, a) ==
    IF slots = <<>> THEN <<a>>
    ELSE <<a>> \o Bases(Tail(slots), Plus(a, Head(slots)))

(***************************************************************************)
(* dumb and simple: one flat array of 64-bit words behind the size.        *)
(* bytes is the number of data bytes calloc was asked for; a word that     *)
(* straddles the end of the allocation has its upper bytes behind it.      *)
(***************************************************************************)
simple_alloc(nbits, g) ==
    [sz    |-> U32(nbits),
     bytes |-> Shr(Plus(nbits, I(63)), 3),
     mem   |-> << >>,
     past  |-> g]

SIMPLE_SLOT(bit) == Shr(bit, 6)

\* the index of the one bit of the C mask: mask == 1LLU << SIMPLE_MASK(bit)
SIMPLE_MASK(bit) == LowBits(bit, 6)

SIMPLE_SLOT_TO_B(s) == Shl32(s, 6)

\* bmap->data[slot] as an rvalue
simple_data(bmap, slot) ==
    LET first  == Shl(slot, 3)
        stored == IF slot \in DOMAIN bmap.mem THEN bmap.mem[slot] ELSE {}
    IN  IF Le(Plus(first, I(8)), bmap.bytes) THEN stored
        ELSE IF Lt(first, bmap.bytes)
             THEN stored \cup {k \in bmap.past : k >= 8 * Minus(bmap.bytes, first)[2]}
             ELSE bmap.past

simple_set(bmap, b) ==
    LET off == SIMPLE_SLOT(b)
        old == IF off \in DOMAIN bmap.mem THEN bmap.mem[off] ELSE {}
    IN  [bmap EXCEPT !.mem = [x \in DOMAIN bmap.mem \cup {off} |->
                                 IF x = off THEN old \cup {SIMPLE_MASK(b)}
                                 ELSE bmap.mem[x]]]

simple_isset(bmap, b) == SIMPLE_MASK(b) \in simple_data(bmap, SIMPLE_SLOT(b))

\* The bit-by-bit loop reads only bits below sz, which lie in allocated words,
\* and the words outside mem are zero: the first i in [b, sz) whose bit is set
\* is the least set bit of mem in that range.
dumb_first_set(bmap, b) ==
    LET found == {i \in {Plus(Shl(off, 6), I(k)) : off \in DOMAIN bmap.mem, k \in 0..63} :
                    /\ Le(b, i) /\ Lt(i, bmap.sz)
                    /\ SIMPLE_MASK(i) \in bmap.mem[SIMPLE_SLOT(i)]}
    IN  IF found = {} THEN BMAP_INVALID_OFF
        ELSE CHOOSE i \in found : \A j \in found : Le(i, j)

\* The loop over the slots after the first reads whole allocated words only
\* (slot < maxslot), so the first non-zero one is the least address of mem
\* in that range.
simple_first_set(bmap, b) ==
    LET slot       == SIMPLE_SLOT(b)
        maxslot    == SIMPLE_SLOT(Plus32(bmap.sz, I(63)))
        first_slot == MaskFrom(SIMPLE_MASK(b), simple_data(bmap, slot))
        later      == {s \in DOMAIN bmap.mem : Lt(slot, s) /\ Lt(s, maxslot)}
    IN  IF first_slot # {}
        THEN Plus32(SIMPLE_SLOT_TO_B(slot), I(ffs(first_slot) - 1))
        ELSE IF later = {} THEN BMAP_INVALID_OFF
             ELSE LET s == CHOOSE x \in later : \A y \in later : Le(x, y)
                  IN  Plus32(SIMPLE_SLOT_TO_B(s), I(ffs(bmap.mem[s]) - 1))

(***************************************************************************)
(* p64: 64-bit pyramid of six levels, level 5 is the bitmap.               *)
(***************************************************************************)
P64_LEVELS == 6

P64_LM(l) == (P64_LEVELS - (l + 1)) * 6

P64_SLOT(b, l) == SIMPLE_SLOT(Shr(b, P64_LM(l)))

\* the index of the one bit of the C mask
P64_MASK(b, l) == SIMPLE_MASK(Shr(b, P64_LM(l)))

p64_alloc(nbits, g) ==
    LET slots == [l \in 1..P64_LEVELS |->
                     Plus(P64_SLOT(Plus(nbits, I(63)), l - 1), I(1))]
        a     == Bases(slots, I(0))
    IN  [sz     |-> U32(nbits),
         levels |-> P64_LEVELS,
         lvl    |-> SubSeq(a, 1, P64_LEVELS),
         total  |-> a[P64_LEVELS + 1],
         mem    |-> << >>,
         past   |-> g]

RECURSIVE p64_set_from(_, _, _)
\* the loop of p64_set from level l on
p64_set_from(pb, b, l) ==
    IF l < P64_LEVELS
    THEN p64_set_from(OrInto(pb, l, P64_SLOT(b, l), P64_MASK(b, l)), b, l + 1)
    ELSE pb

p64_set(pb, b) == p64_set_from(pb, b, 0)

p64_isset(pb, b) == P64_MASK(b, 5) \in Load(pb, 5, P64_SLOT(b, 5), 64)

RECURSIVE p64_first_set_loop(_, _, _)
\* the for loop of p64_first_set and of p64_first_set_no_l5_peek, entered with
\* cursor b at level l; slot, min, b and l are unsigned int
p64_first_set_loop(pb, b, l) ==
    IF l >= 6 THEN b
    ELSE LET slot   == P64_SLOT(b, l)
             masked == MaskFrom(P64_MASK(b, l), Load(pb, l, slot, 64))
         IN  IF masked # {}
             THEN LET min == Shl32(Plus32(Shl32(slot, 6), I(ffs(masked) - 1)), P64_LM(l))
                  IN  p64_first_set_loop(pb, IF Lt(b, min) THEN min ELSE b, l + 1)
             ELSE IF l = 0
                  THEN BMAP_INVALID_OFF
                  ELSE p64_first_set_loop(pb, Shl32(Plus32(slot, I(1)), P64_LM(l - 1)),
                                          l - 1)

p64_first_set(pb, b) ==
    IF Lt(pb.sz, b) THEN BMAP_INVALID_OFF
    ELSE LET slot   == P64_SLOT(b, 5)
             masked == MaskFrom(P64_MASK(b, 5), Load(pb, 5, slot, 64))
             b0     == Shl32(slot, 6)
         IN  IF masked # {}
             THEN Plus32(b0, I(ffs(masked) - 1))
             ELSE p64_first_set_loop(pb, Plus32(b0, I(64)), 0)

p64_first_set_no_l5_peek(pb, b) == p64_first_set_loop(pb, b, 0)

(***************************************************************************)
(* p64v2: p64 with functions in place of the macros.                       *)
(***************************************************************************)
log2_64 == 6

p64v2_levels == 6

\* log2 of how many bits one bit covers at this level
p64v2_lm(l) == (p64v2_levels - l - 1) * log2_64

p64v2_slot(b, l) == Shr(b, log2_64 + p64v2_lm(l))

\* the index of the one bit of the C mask
p64v2_mask(b, l) == LowBits(Shr(b, p64v2_lm(l)), log2_64)

p64v2_alloc(nbits, g) ==
    LET slots == [l \in 1..6 |-> Plus(p64v2_slot(Plus(nbits, I(63)), l - 1), I(1))]
        a     == Bases(slots, I(0))
    IN  [sz     |-> U32(nbits),
         levels |-> 6,
         lvl    |-> SubSeq(a, 1, 6),
         total  |-> a[7],
         mem    |-> << >>,
         past   |-> g]

RECURSIVE p64v2_set_from(_, _, _)
\* the loop of p64v2_set from level l on
p64v2_set_from(pb, b, l) ==
    IF l < p64v2_levels
    THEN p64v2_set_from(OrInto(pb, l, p64v2_slot(b, l), p64v2_mask(b, l)), b, l + 1)
    ELSE pb

p64v2_set(pb, b) == p64v2_set_from(pb, b, 0)

p64v2_isset(pb, b) == p64v2_mask(b, 5) \in Load(pb, 5, p64v2_slot(b, 5), 64)

RECURSIVE p64v2_first_set_loop(_, _, _)
\* the for loop of p64v2_first_set; slot, min, b and l are unsigned int
p64v2_first_set_loop(pb, b, l) ==
    IF l >= 6 THEN b
    ELSE LET slot   == U32(p64v2_slot(b, l))
             masked == MaskFrom(p64v2_mask(b, l), Load(pb, l, slot, 64))
         IN  IF masked # {}
             THEN LET min == Shl32(Plus32(Shl32(slot, log2_64), I(ffs(masked) - 1)),
                                   p64v2_lm(l))
                  IN  p64v2_first_set_loop(pb, IF Lt(b, min) THEN min ELSE b, l + 1)
             ELSE IF l = 0
                  THEN BMAP_INVALID_OFF
                  ELSE p64v2_first_set_loop(pb, Shl32(Plus32(slot, I(1)), p64v2_lm(l - 1)),
                                            l - 1)

p64v2_first_set(pb, b) ==
    IF Lt(pb.sz, b) THEN BMAP_INVALID_OFF
    ELSE LET slot   == U32(p64v2_slot(b, 5))
             masked == MaskFrom(p64v2_mask(b, 5), Load(pb, 5, slot, 64))
             b0     == Shl32(slot, log2_64)
         IN  IF masked # {}
             THEN Plus32(b0, I(ffs(masked) - 1))
             ELSE p64v2_first_set_loop(pb, Plus32(b0, I(64)), 0)

(***************************************************************************)
(* p64v3: 64-bit slots, level 0 is the bitmap, dynamic number of levels.   *)
(***************************************************************************)
\* log2 of how many bits one bit covers at this level
p64v3_bpb(l) == l * log2_64

\* log2 of how many bits one slot covers at this level
p64v3_bps(l) == (l + 1) * log2_64

p64v3_slot(b, l) == Shr(b, p64v3_bps(l))

\* the index of the one bit of the C mask: mask == 1LLU << p64v3_mask(b, l)
p64v3_mask(b, l) == LowBits(Shr(b, p64v3_bpb(l)), log2_64)

\* slots for nbits bits rounded up to whole slots
p64v3_slots_per_level_ceil(nbits, l) ==
    Shr(Plus(nbits, Minus(Shl(I(1), p64v3_bps(l)), I(1))), p64v3_bps(l))

\* how many slots do we need to cover nbits on this level
p64v3_slots_per_level(nbits, l) == Plus(p64v3_slot(nbits, l), I(1))

RECURSIVE p64v3_count_levels(_, _)
\* for (levels = 0; p64v3_slots_per_level(nbits, levels) > 1; levels++) ;
p64v3_count_levels(nbits, levels) ==
    IF Lt(I(1), p64v3_slots_per_level(nbits, levels))
    THEN p64v3_count_levels(nbits, levels + 1)
    ELSE levels

p64v3_alloc(nbits, g) ==
    LET levels == p64v3_count_levels(nbits, 0) + 1
        slots  == [l \in 1..levels |-> p64v3_slots_per_level(nbits, l - 1)]
        a      == Bases(slots, I(0))
    IN  [sz     |-> U32(nbits),
         levels |-> levels,
         lvl    |-> SubSeq(a, 1, levels),
         total  |-> a[levels + 1],
         mem    |-> << >>,
         past   |-> g]

RECURSIVE p64v3_set_from(_, _, _)
\* the loop of p64v3_set from level l on
p64v3_set_from(pb, b, l) ==
    IF l < pb.levels
    THEN p64v3_set_from(OrInto(pb, l, p64v3_slot(b, l), p64v3_mask(b, l)), b, l + 1)
    ELSE pb

p64v3_set(pb, b) == p64v3_set_from(pb, b, 0)

p64v3_isset(pb, b) == p64v3_mask(b, 0) \in Load(pb, 0, p64v3_slot(b, 0), 64)

RECURSIVE p64v3_first_set_loop(_, _, _)
\* the for loop of p64v3_first_set, entered with cursor b at level l;
\* slot, min and b are unsigned int, l is int ("l += 2" and the loop's "l--")
p64v3_first_set_loop(pb, b, l) ==
    IF l < 0 THEN b
    ELSE LET slot   == U32(p64v3_slot(b, l))
             masked == MaskFrom(p64v3_mask(b, l), Load(pb, l, slot, 64))
         IN  IF masked # {}
             THEN LET min == Shl32(Plus32(Shl32(slot, log2_64), I(ffs(masked) - 1)),
                                   p64v3_bpb(l))
                  IN  p64v3_first_set_loop(pb, IF Lt(b, min) THEN min ELSE b, l - 1)
             ELSE IF l = pb.levels - 1
                  THEN BMAP_INVALID_OFF
                  ELSE p64v3_first_set_loop(pb, Shl32(Plus32(slot, I(1)), p64v3_bps(l)),
                                            l + 1)

p64v3_first_set(pb, b) ==
    IF Lt(pb.sz, b) THEN BMAP_INVALID_OFF
    ELSE LET slot   == U32(p64v3_slot(b, 0))
             masked == MaskFrom(p64v3_mask(b, 0), Load(pb, 0, slot, 64))
             b0     == Shl32(slot, log2_64)
         IN  IF masked # {}
             THEN Plus32(b0, I(ffs(masked) - 1))
             ELSE p64v3_first_set_loop(pb, Plus32(b0, I(64)), pb.levels - 1)

RECURSIVE p64v3_first_set_r(_, _, _)
\* b, slot, m and l are uint64_t; the result is converted to unsigned int
p64v3_first_set_r(pb, b, l) ==
    LET slot   == p64v3_slot(b, l)
        masked == MaskFrom(p64v3_mask(b, l), Load(pb, l, slot, 64))
    IN  IF masked # {}
        THEN LET m == Shl(Plus(Shl(slot, log2_64), I(ffs(masked) - 1)), p64v3_bpb(l))
             IN  IF l = 0 THEN U32(m)
                 ELSE p64v3_first_set_r(pb, IF Lt(b, m) THEN m ELSE b, l - 1)
        ELSE IF l = pb.levels - 1
             THEN BMAP_INVALID_OFF
             ELSE p64v3_first_set_r(pb, Shl(Plus(slot, I(1)), p64v3_bps(l)), l + 1)

p64v3r_first_set(pb, b) ==
    IF Lt(pb.sz, b) THEN BMAP_INVALID_OFF
    ELSE p64v3_first_set_r(pb, b, 0)

p64v3r2_first_set(pb, b) ==
    IF Lt(pb.sz, b) THEN BMAP_INVALID_OFF
    ELSE LET slot   == U32(p64v3_slot(b, 0))
             masked == MaskFrom(p64v3_mask(b, 0), Load(pb, 0, slot, 64))
             b0     == Shl32(slot, log2_64)
         IN  IF masked # {}
             THEN Plus32(b0, I(ffs(masked) - 1))
             ELSE p64v3_first_set_r(pb, Plus32(b0, I(64)), pb.levels - 1)

p64v3r3_first_set(pb, b) ==
    IF Lt(pb.sz, b) THEN BMAP_INVALID_OFF
    ELSE LET slot   == U32(p64v3_slot(b, 0))
             masked == MaskFrom(p64v3_mask(b, 0), Load(pb, 0, slot, 64))
             b0     == Shl32(slot, log2_64)
             b1     == Plus32(b0, I(64))
         IN  IF masked # {}
             THEN Plus32(b0, I(ffs(masked) - 1))
             ELSE IF Lt(pb.sz, b1) THEN BMAP_INVALID_OFF
                  ELSE p64v3_first_set_r(pb, b1, 1)

(***************************************************************************)
(* p8: like p64v3 with 8-bit slots and uint32_t arithmetic.  The shift     *)
(* counts bps(l) and bpb(l) reach 32 once the universe reaches 2^30.       *)
(***************************************************************************)
log2_8 == 3

\* log2 of how many bits one bit covers at this level
p8_bpb(l) == l * log2_8

\* log2 of how many bits one slot covers at this level
p8_bps(l) == (l + 1) * log2_8

p8_slot(b, l) == ShrU32(b, p8_bps(l))

\* the index of the one bit of the C mask: mask == 1U << p8_mask(b, l)
p8_mask(b, l) == LowBits(ShrU32(b, p8_bpb(l)), log2_8)

\* how many slots do we need to cover nbits on this level
p8_slots_per_level(n, l) == Plus32(p8_slot(n, l), I(1))

RECURSIVE p8_count_levels(_, _)
\* for (levels = 0; p8_slots_per_level(nbits, levels) > 1; levels++) ;
p8_count_levels(n, levels) ==
    IF Lt(I(1), p8_slots_per_level(n, levels))
    THEN p8_count_levels(n, levels + 1)
    ELSE levels

p8_alloc(n, g) ==
    LET levels == p8_count_levels(n, 0) + 1
        slots  == [l \in 1..levels |-> p8_slots_per_level(n, l - 1)]
        a      == Bases(slots, I(0))
    IN  [sz     |-> U32(n),
         levels |-> levels,
         lvl    |-> SubSeq(a, 1, levels),
         total  |-> a[levels + 1],
         mem    |-> << >>,
         past   |-> g]

RECURSIVE p8_set_from(_, _, _)
\* the loop of p8_set from level l on
p8_set_from(pb, b, l) ==
    IF l < pb.levels
    THEN p8_set_from(OrInto(pb, l, p8_slot(b, l), p8_mask(b, l)), b, l + 1)
    ELSE pb

p8_set(pb, b) == p8_set_from(pb, b, 0)

p8_isset(pb, b) == p8_mask(b, 0) \in Load(pb, 0, p8_slot(b, 0), 8)

RECURSIVE p8_first_set_r(_, _, _)
\* b, slot, m and l are 32 bits wide
p8_first_set_r(pb, b, l) ==
    LET slot   == p8_slot(b, l)
        masked == MaskFrom(p8_mask(b, l), Load(pb, l, slot, 8))
    IN  IF masked # {}
        THEN LET m == ShlU32(Plus32(ShlU32(slot, log2_8), I(ffs(masked) - 1)), p8_bpb(l))
             IN  IF l = 0 THEN m
                 ELSE p8_first_set_r(pb, IF Lt(b, m) THEN m ELSE b, l - 1)
        ELSE IF l = pb.levels - 1
             THEN BMAP_INVALID_OFF
             ELSE p8_first_set_r(pb, ShlU32(Plus32(slot, I(1)), p8_bps(l)), l + 1)

p8_first_set(pb, b) ==
    IF Lt(pb.sz, b) THEN BMAP_INVALID_OFF
    ELSE p8_first_set_r(pb, b, 0)

(***************************************************************************)
(* p32: like p64v3 with 32-bit slots and uint32_t arithmetic.  The shift   *)
(* counts bps(l) and bpb(l) reach 32 once the universe reaches 2^30.       *)
(***************************************************************************)
log2_32 == 5

\* log2 of how many bits one bit covers at this level
p32_bpb(l) == l * log2_32

\* log2 of how many bits one slot covers at this level
p32_bps(l) == (l + 1) * log2_32

p32_slot(b, l) == ShrU32(b, p32_bps(l))

\* the index of the one bit of the C mask: mask == 1U << p32_mask(b, l)
p32_mask(b, l) == LowBits(ShrU32(b, p32_bpb(l)), log2_32)

\* how many slots do we need to cover nbits on this level
p32_slots_per_level(n, l) == Plus32(p32_slot(n, l), I(1))

RECURSIVE p32_count_levels(_, _)
\* for (levels = 0; p32_slots_per_level(nbits, levels) > 1; levels++) ;
p32_count_levels(n, levels) ==
    IF Lt(I(1), p32_slots_per_level(n, levels))
    THEN p32_count_levels(n, levels + 1)
    ELSE levels

p32_alloc(n, g) ==
    LET levels == p32_count_levels(n, 0) + 1
        slots  == [l \in 1..levels |-> p32_slots_per_level(n, l - 1)]
        a      == Bases(slots, I(0))
    IN  [sz     |-> U32(n),
         levels |-> levels,
         lvl    |-> SubSeq(a, 1, levels),
         total  |-> a[levels + 1],
         mem    |-> << >>,
         past   |-> g]

RECURSIVE p32_set_from(_, _, _)
\* the loop of p32_set from level l on
p32_set_from(pb, b, l) ==
    IF l < pb.levels
    THEN p32_set_from(OrInto(pb, l, p32_slot(b, l), p32_mask(b, l)), b, l + 1)
    ELSE pb

p32_set(pb, b) == p32_set_from(pb, b, 0)

p32_isset(pb, b) == p32_mask(b, 0) \in Load(pb, 0, p32_slot(b, 0), 32)

RECURSIVE p32_first_set_r(_, _, _)
\* b, slot, m and l are 32 bits wide
p32_first_set_r(pb, b, l) ==
    LET slot   == p32_slot(b, l)
        masked == MaskFrom(p32_mask(b, l), Load(pb, l, slot, 32))
    IN  IF masked # {}
        THEN LET m == ShlU32(Plus32(ShlU32(slot, log2_32), I(ffs(masked) - 1)), p32_bpb(l))
             IN  IF l = 0 THEN m
                 ELSE p32_first_set_r(pb, IF Lt(b, m) THEN m ELSE b, l - 1)
        ELSE IF l = pb.levels - 1
             THEN BMAP_INVALID_OFF
             ELSE p32_first_set_r(pb, ShlU32(Plus32(slot, I(1)), p32_bps(l)), l + 1)

p32_first_set(pb, b) ==
    IF Lt(pb.sz, b) THEN BMAP_INVALID_OFF
    ELSE p32_first_set_r(pb, b, 0)

(***************************************************************************)
(* The runs of the searches: the same steps as the first_set operators     *)
(* above, one call of a recursive search or one turn of a loop at a time,  *)
(* with every slot read kept.  A run is cut after MaxSteps steps.          *)
(***************************************************************************)
MaxSteps == 64

\* a search entered with cursor b at level l
Start(b, l) == [l |-> l, b |-> b, path |-> << >>, ret |-> BMAP_INVALID_OFF, done |-> FALSE]

\* the search returns ret after the read here
Return(c, here, ret) == [c EXCEPT !.path = Append(@, here), !.ret = ret, !.done = TRUE]

\* the search returns ret without a read
Leave(c, ret) == [c EXCEPT !.ret = ret, !.done = TRUE]

\* the search goes on with cursor b at level l after the read here
Goto(c, here, b, l) == [c EXCEPT !.path = Append(@, here), !.b = b, !.l = l]

\* one call of p64v3_first_set_r that keeps the cursor when it ascends
p64v3_step_stay(pb, c) ==
    LET slot   == p64v3_slot(c.b, c.l)
        masked == MaskFrom(p64v3_mask(c.b, c.l), Load(pb, c.l, slot, 64))
        here   == [l |-> c.l, b |-> c.b, slot |-> slot]
        m      == Shl(Plus(Shl(slot, log2_64), I(ffs(masked) - 1)), p64v3_bpb(c.l))
    IN  IF c.done THEN c
        ELSE IF masked # {}
        THEN IF c.l = 0 THEN Return(c, here, U32(m))
             ELSE Goto(c, here, IF Lt(c.b, m) THEN m ELSE c.b, c.l - 1)
        ELSE IF c.l = pb.levels - 1
             THEN Return(c, here, BMAP_INVALID_OFF)
             ELSE Goto(c, here, c.b, c.l + 1)

\* one call of p64v3_first_set_r that takes levels for the topmost level
p64v3_step_over(pb, c) ==
    LET slot   == p64v3_slot(c.b, c.l)
        masked == MaskFrom(p64v3_mask(c.b, c.l), Load(pb, c.l, slot, 64))
        here   == [l |-> c.l, b |-> c.b, slot |-> slot]
        m      == Shl(Plus(Shl(slot, log2_64), I(ffs(masked) - 1)), p64v3_bpb(c.l))
    IN  IF c.done THEN c
        ELSE IF masked # {}
        THEN IF c.l = 0 THEN Return(c, here, U32(m))
             ELSE Goto(c, here, IF Lt(c.b, m) THEN m ELSE c.b, c.l - 1)
        ELSE IF c.l = pb.levels
             THEN Return(c, here, BMAP_INVALID_OFF)
             ELSE Goto(c, here, Shl(Plus(slot, I(1)), p64v3_bps(c.l)), c.l + 1)

\* one call of p64v3_first_set_r(pb, c.b, c.l)
p64v3_step(pb, c) ==
    LET slot   == p64v3_slot(c.b, c.l)
        masked == MaskFrom(p64v3_mask(c.b, c.l), Load(pb, c.l, slot, 64))
        here   == [l |-> c.l, b |-> c.b, slot |-> slot]
        m      == Shl(Plus(Shl(slot, log2_64), I(ffs(masked) - 1)), p64v3_bpb(c.l))
    IN  IF c.done THEN c
        ELSE IF masked # {}
        THEN IF c.l = 0 THEN Return(c, here, U32(m))
             ELSE Goto(c, here, IF Lt(c.b, m) THEN m ELSE c.b, c.l - 1)
        ELSE IF c.l = pb.levels - 1
             THEN Return(c, here, BMAP_INVALID_OFF)
             ELSE Goto(c, here, Shl(Plus(slot, I(1)), p64v3_bps(c.l)), c.l + 1)

\* one call of p8_first_set_r(pb, c.b, c.l)
p8_step(pb, c) ==
    LET slot   == p8_slot(c.b, c.l)
        masked == MaskFrom(p8_mask(c.b, c.l), Load(pb, c.l, slot, 8))
        here   == [l |-> c.l, b |-> c.b, slot |-> slot]
        m      == ShlU32(Plus32(ShlU32(slot, log2_8), I(ffs(masked) - 1)), p8_bpb(c.l))
    IN  IF c.done THEN c
        ELSE IF masked # {}
        THEN IF c.l = 0 THEN Return(c, here, m)
             ELSE Goto(c, here, IF Lt(c.b, m) THEN m ELSE c.b, c.l - 1)
        ELSE IF c.l = pb.levels - 1
             THEN Return(c, here, BMAP_INVALID_OFF)
             ELSE Goto(c, here, ShlU32(Plus32(slot, I(1)), p8_bps(c.l)), c.l + 1)

\* one call of p32_first_set_r(pb, c.b, c.l)
p32_step(pb, c) ==
    LET slot   == p32_slot(c.b, c.l)
        masked == MaskFrom(p32_mask(c.b, c.l), Load(pb, c.l, slot, 32))
        here   == [l |-> c.l, b |-> c.b, slot |-> slot]
        m      == ShlU32(Plus32(ShlU32(slot, log2_32), I(ffs(masked) - 1)), p32_bpb(c.l))
    IN  IF c.done THEN c
        ELSE IF masked # {}
        THEN IF c.l = 0 THEN Return(c, here, m)
             ELSE Goto(c, here, IF Lt(c.b, m) THEN m ELSE c.b, c.l - 1)
        ELSE IF c.l = pb.levels - 1
             THEN Return(c, here, BMAP_INVALID_OFF)
             ELSE Goto(c, here, ShlU32(Plus32(slot, I(1)), p32_bps(c.l)), c.l + 1)

\* one turn of the for loop of p64_first_set and p64_first_set_no_l5_peek
p64_step(pb, c) ==
    LET slot   == P64_SLOT(c.b, c.l)
        masked == MaskFrom(P64_MASK(c.b, c.l), Load(pb, c.l, slot, 64))
        here   == [l |-> c.l, b |-> c.b, slot |-> slot]
        min    == Shl32(Plus32(Shl32(slot, 6), I(ffs(masked) - 1)), P64_LM(c.l))
    IN  IF c.done THEN c
        ELSE IF c.l >= 6 THEN Leave(c, c.b)
        ELSE IF masked # {}
        THEN Goto(c, here, IF Lt(c.b, min) THEN min ELSE c.b, c.l + 1)
        ELSE IF c.l = 0
             THEN Return(c, here, BMAP_INVALID_OFF)
             ELSE Goto(c, here, Shl32(Plus32(slot, I(1)), P64_LM(c.l - 1)), c.l - 1)

\* one turn of the for loop of p64v2_first_set
p64v2_step(pb, c) ==
    LET slot   == U32(p64v2_slot(c.b, c.l))
        masked == MaskFrom(p64v2_mask(c.b, c.l), Load(pb, c.l, slot, 64))
        here   == [l |-> c.l, b |-> c.b, slot |-> slot]
        min    == Shl32(Plus32(Shl32(slot, log2_64), I(ffs(masked) - 1)), p64v2_lm(c.l))
    IN  IF c.done THEN c
        ELSE IF c.l >= p64v2_levels THEN Leave(c, c.b)
        ELSE IF masked # {}
        THEN Goto(c, here, IF Lt(c.b, min) THEN min ELSE c.b, c.l + 1)
        ELSE IF c.l = 0
             THEN Return(c, here, BMAP_INVALID_OFF)
             ELSE Goto(c, here, Shl32(Plus32(slot, I(1)), p64v2_lm(c.l - 1)), c.l - 1)

\* one turn of the for loop of p64v3_first_set
p64v3_loop_step(pb, c) ==
    LET slot   == U32(p64v3_slot(c.b, c.l))
        masked == MaskFrom(p64v3_mask(c.b, c.l), Load(pb, c.l, slot, 64))
        here   == [l |-> c.l, b |-> c.b, slot |-> slot]
        min    == Shl32(Plus32(Shl32(slot, log2_64), I(ffs(masked) - 1)), p64v3_bpb(c.l))
    IN  IF c.done THEN c
        ELSE IF c.l < 0 THEN Leave(c, c.b)
        ELSE IF masked # {}
        THEN Goto(c, here, IF Lt(c.b, min) THEN min ELSE c.b, c.l - 1)
        ELSE IF c.l = pb.levels - 1
             THEN Return(c, here, BMAP_INVALID_OFF)
             ELSE Goto(c, here, Shl32(Plus32(slot, I(1)), p64v3_bps(c.l)), c.l + 1)

\* one step of the search of the given kind
step(kind, pb, c) ==
    CASE kind = "p64" -> p64_step(pb, c)
      [] kind = "p64v2" -> p64v2_step(pb, c)
      [] kind = "p64v3" -> p64v3_loop_step(pb, c)
      [] kind = "p64v3r" -> p64v3_step(pb, c)
      [] kind = "p8" -> p8_step(pb, c)
      [] kind = "p32" -> p32_step(pb, c)

RECURSIVE steps(_, _, _, _)
\* n steps of the search from c
steps(kind, pb, c, n) ==
    IF c.done \/ n = 0 THEN c
    ELSE IF n = 1 THEN step(kind, pb, c)
    ELSE steps(kind, pb, steps(kind, pb, c, n \div 2), n - (n \div 2))

\* the search from c until it returns or has taken MaxSteps steps
run(kind, pb, c) == steps(kind, pb, c, MaxSteps)

\* the guard "b > pb->sz" every search but the no-peek one starts with
Guarded(pb, b, r) == IF Lt(pb.sz, b) THEN Leave(Start(b, 0), BMAP_INVALID_OFF) ELSE r

p64_run(pb, b) ==
    LET slot   == P64_SLOT(b, 5)
        masked == MaskFrom(P64_MASK(b, 5), Load(pb, 5, slot, 64))
        b0     == Shl32(slot, 6)
        here   == [l |-> 5, b |-> b, slot |-> slot]
    IN  Guarded(pb, b,
            IF masked # {} THEN Return(Start(b, 5), here, Plus32(b0, I(ffs(masked) - 1)))
            ELSE run("p64", pb, Goto(Start(b, 5), here, Plus32(b0, I(64)), 0)))

p64_naive_run(pb, b) == run("p64", pb, Start(b, 0))

p64v2_run(pb, b) ==
    LET slot   == U32(p64v2_slot(b, 5))
        masked == MaskFrom(p64v2_mask(b, 5), Load(pb, 5, slot, 64))
        b0     == Shl32(slot, log2_64)
        here   == [l |-> 5, b |-> b, slot |-> slot]
    IN  Guarded(pb, b,
            IF masked # {} THEN Return(Start(b, 5), here, Plus32(b0, I(ffs(masked) - 1)))
            ELSE run("p64v2", pb, Goto(Start(b, 5), here, Plus32(b0, I(64)), 0)))

\* the peek at the bitmap word of b that p64v3, p64v3r2 and p64v3r3 start with,
\* followed by the search of the given kind from level l with the cursor behind
\* that word
p64v3_peek(pb, b, kind, l) ==
    LET slot   == U32(p64v3_slot(b, 0))
        masked == MaskFrom(p64v3_mask(b, 0), Load(pb, 0, slot, 64))
        b0     == Shl32(slot, log2_64)
        b1     == Plus32(b0, I(64))
        here   == [l |-> 0, b |-> b, slot |-> slot]
    IN  Guarded(pb, b,
            IF masked # {} THEN Return(Start(b, 0), here, Plus32(b0, I(ffs(masked) - 1)))
            ELSE IF kind = "p64v3r3" /\ Lt(pb.sz, b1)
                 THEN Return(Start(b, 0), here, BMAP_INVALID_OFF)
                 ELSE run(IF kind = "p64v3" THEN "p64v3" ELSE "p64v3r", pb,
                          Goto(Start(b, 0), here, b1, l)))

p64v3_run(pb, b) == p64v3_peek(pb, b, "p64v3", pb.levels - 1)

p64v3r_run(pb, b) == Guarded(pb, b, run("p64v3r", pb, Start(b, 0)))

p64v3r2_run(pb, b) == p64v3_peek(pb, b, "p64v3r2", pb.levels - 1)

p64v3r3_run(pb, b) == p64v3_peek(pb, b, "p64v3r3", 1)

p8_run(pb, b) == Guarded(pb, b, run("p8", pb, Start(b, 0)))

p32_run(pb, b) == Guarded(pb, b, run("p32", pb, Start(b, 0)))

(***************************************************************************)
(* The size the allocs ask calloc for, in slots behind the header and the  *)
(* pointer table ("sz += slots of l * sizeof slot" over the levels).       *)
(***************************************************************************)
RECURSIVE SumSlots(_)
SumSlots(slots) == IF slots = << >> THEN I(0) ELSE Plus(Head(slots), SumSlots(Tail(slots)))

p64_alloc_slots(nbits) ==
    SumSlots([l \in 1..P64_LEVELS |-> Plus(P64_SLOT(Plus(nbits, I(63)), l - 1), I(1))])

p64v2_alloc_slots(nbits) ==
    SumSlots([l \in 1..p64v2_levels |-> Plus(p64v2_slot(Plus(nbits, I(63)), l - 1), I(1))])

p64v3_alloc_slots(nbits) ==
    LET levels == p64v3_count_levels(nbits, 0) + 1
    IN  SumSlots([l \in 1..levels |-> p64v3_slots_per_level(nbits, l - 1)])

\* the same in the earlier revision of the file, where "levels++" comes after
\* the sizing loop
p64v3_alloc_slots_earlier(nbits) ==
    LET levels == p64v3_count_levels(nbits, 0)
    IN  SumSlots([l \in 1..levels |-> p64v3_slots_per_level(nbits, l - 1)])

p8_alloc_slots(n) ==
    LET levels == p8_count_levels(n, 0) + 1
    IN  SumSlots([l \in 1..levels |-> p8_slots_per_level(n, l - 1)])

p32_alloc_slots(n) ==
    LET levels == p32_count_levels(n, 0) + 1
    IN  SumSlots([l \in 1..levels |-> p32_slots_per_level(n, l - 1)])

(***************************************************************************)
(* The harness (bmap_test.c): every implementation is allocated for the    *)
(* same universe and populated with the same set() calls, then queried.    *)
(* Implementations that share alloc and set build the same struct, so the  *)
(* model keeps one handle for each struct type.                            *)
(***************************************************************************)
MaxMembers == 2

\* 2^30: from here on p8 and p32 shift a uint32_t by 32 or more
MaxSmall == <<2^14, 0>>

\* the largest universe an unsigned int size can hold
Huge == <<65535, 65535>>

\* 2^32, the largest universe of the README: as an unsigned int it is 0
Full == <<2^16, 0>>

Sizes == {I(1), I(60), I(64), I(121), I(1000), I(8191), MaxSmall, Huge, Full}

\* the bits the harness populates with
SomeBits == {I(0), I(1), I(63), I(64), I(120), I(999),
             <<49152, 8>>, <<65535, 65534>>, <<65535, 65535>>}

\* the bits it asks for
Froms == SomeBits \cup Sizes
         \cup {I(2), I(56), I(65), I(121), I(128), I(8128),
               <<49152, 9>>, <<50354, 16640>>, <<65535, 65472>>}

\* what a read behind the end of an allocation may find
PastWords == {{}, {0, 63}}

Variants == {"dumb", "simple", "p64", "p64-naive", "p64v2", "p64v3",
             "p64v3r", "p64v3r2", "p64v3r3", "p8", "p32"}

\* bi->isset(v, b) of the bmap_interface of variant i
isset(i, b) ==
    CASE i \in {"dumb", "simple"} -> simple_isset(simple, b)
      [] i \in {"p64", "p64-naive"} -> p64_isset(p64, b)
      [] i = "p64v2" -> p64v2_isset(p64v2, b)
      [] i \in {"p64v3", "p64v3r", "p64v3r2", "p64v3r3"} -> p64v3_isset(p64v3, b)
      [] i = "p8" -> p8_isset(p8, b)
      [] i = "p32" -> p32_isset(p32, b)

\* bi->first_set(v, b) of the bmap_interface of variant i
first_set(i, b) ==
    CASE i = "dumb" -> dumb_first_set(simple, b)
      [] i = "simple" -> simple_first_set(simple, b)
      [] i = "p64" -> p64_first_set(p64, b)
      [] i = "p64-naive" -> p64_first_set_no_l5_peek(p64, b)
      [] i = "p64v2" -> p64v2_first_set(p64v2, b)
      [] i = "p64v3" -> p64v3_first_set(p64v3, b)
      [] i = "p64v3r" -> p64v3r_first_set(p64v3, b)
      [] i = "p64v3r2" -> p64v3r2_first_set(p64v3, b)
      [] i = "p64v3r3" -> p64v3r3_first_set(p64v3, b)
      [] i = "p8" -> p8_first_set(p8, b)
      [] i = "p32" -> p32_first_set(p32, b)

\* the run of tests[i].first_set(v, b), for the pyramids
search(i, b) ==
    CASE i = "p64" -> p64_run(p64, b)
      [] i = "p64-naive" -> p64_naive_run(p64, b)
      [] i = "p64v2" -> p64v2_run(p64v2, b)
      [] i = "p64v3" -> p64v3_run(p64v3, b)
      [] i = "p64v3r" -> p64v3r_run(p64v3, b)
      [] i = "p64v3r2" -> p64v3r2_run(p64v3, b)
      [] i = "p64v3r3" -> p64v3r3_run(p64v3, b)
      [] i = "p8" -> p8_run(p8, b)
      [] i = "p32" -> p32_run(p32, b)

\* the handle the variant works on
handle(i) ==
    CASE i \in {"dumb", "simple"} -> simple
      [] i \in {"p64", "p64-naive"} -> p64
      [] i = "p64v2" -> p64v2
      [] i \in {"p64v3", "p64v3r", "p64v3r2", "p64v3r3"} -> p64v3
      [] i = "p8" -> p8
      [] i = "p32" -> p32

Pyramids == Variants \ {"dumb", "simple"}

\* the slots calloc was asked for behind the handle's header and pointer table
alloc_slots(i, n) ==
    CASE i \in {"p64", "p64-naive"} -> p64_alloc_slots(n)
      [] i = "p64v2" -> p64v2_alloc_slots(n)
      [] i \in {"p64v3", "p64v3r", "p64v3r2", "p64v3r3"} -> p64v3_alloc_slots(n)
      [] i = "p8" -> p8_alloc_slots(n)
      [] i = "p32" -> p32_alloc_slots(n)

\* the slot of level l that set and isset address for bit b
slot_of(i, b, l) ==
    CASE i \in {"p64", "p64-naive"} -> P64_SLOT(b, l)
      [] i = "p64v2" -> p64v2_slot(b, l)
      [] i \in {"p64v3", "p64v3r", "p64v3r2", "p64v3r3"} -> p64v3_slot(b, l)
      [] i = "p8" -> p8_slot(b, l)
      [] i = "p32" -> p32_slot(b, l)

Handles == {"simple", "p64", "p64v2", "p64v3", "p8", "p32"}

\* the handle an alloc leaves behind when calloc returned NULL: no alloc tests
\* the pointer, each stores sz (and levels, lvl[]) through it, so the fields
\* are written and no word of the handle lies in an allocation
ThroughNull(h) ==
    IF "total" \in DOMAIN h THEN [h EXCEPT !.total = I(0)]
    ELSE [h EXCEPT !.bytes = I(0)]

\* the value alloc returns for the pointer c that calloc gave it
Returned(h, c) == IF c = "ok" THEN h ELSE ThroughNull(h)

Init ==
    \E n \in Sizes, g \in PastWords, ws \in {"zero", "mod"}, c \in {"ok", "null"} :
        /\ universe = n
        /\ wideshift = ws
        /\ heap = c
        /\ nullstores = IF c = "null" THEN Handles ELSE {}
        /\ members = {}
        /\ simple = Returned(simple_alloc(n, g), c)
        /\ p64 = Returned(p64_alloc(n, g), c)
        /\ p64v2 = Returned(p64v2_alloc(n, g), c)
        /\ p64v3 = Returned(p64v3_alloc(n, g), c)
        /\ p8 = Returned(p8_alloc(n, g), c)
        /\ p32 = Returned(p32_alloc(n, g), c)
        /\ op = "alloc"
        /\ dup = FALSE

\* bi->set(v, b) on every handle, b < universe.  The harness gets as far as
\* this only when the allocs came back: a store through NULL ends the run.
Set(b) ==
    /\ heap = "ok"
    /\ Lt(b, universe)
    /\ b \in members \/ Cardinality(members) < MaxMembers
    /\ members' = members \cup {b}
    /\ simple' = simple_set(simple, b)
    /\ p64' = p64_set(p64, b)
    /\ p64v2' = p64v2_set(p64v2, b)
    /\ p64v3' = p64v3_set(p64v3, b)
    /\ p8' = p8_set(p8, b)
    /\ p32' = p32_set(p32, b)
    /\ op' = "set"
    /\ dup' = (b \in members)
    /\ UNCHANGED <<universe, wideshift, heap, nullstores>>

\* the handle after a query has stored through it
Scribbled(h) == [h EXCEPT !.mem = << >>]

\* the handle after isset(v, b) or first_set(v, b): the functions load
\* pb->sz, pb->levels and pb->lvl[l][slot] and store into their locals only
Queried(h) == h

\* bi->first_set(v, b) for any b
FirstSet ==
    /\ heap = "ok"
    /\ op' = "first_set"
    /\ dup' = FALSE
    /\ simple' = Queried(simple)
    /\ p64' = Queried(p64)
    /\ p64v2' = Queried(p64v2)
    /\ p64v3' = Queried(p64v3)
    /\ p8' = Queried(p8)
    /\ p32' = Queried(p32)
    /\ UNCHANGED <<universe, wideshift, heap, nullstores, members>>

\* bi->isset(v, b) for any b
IsSet ==
    /\ heap = "ok"
    /\ op' = "isset"
    /\ dup' = FALSE
    /\ simple' = Queried(simple)
    /\ p64' = Queried(p64)
    /\ p64v2' = Queried(p64v2)
    /\ p64v3' = Queried(p64v3)
    /\ p8' = Queried(p8)
    /\ p32' = Queried(p32)
    /\ UNCHANGED <<universe, wideshift, heap, nullstores, members>>

Next ==
    \/ \E b \in SomeBits : Set(b)
    \/ FirstSet
    \/ IsSet

Spec == Init /\ [][Next]_vars

TypeOK == /\ universe \in Sizes
          /\ members \subseteq SomeBits
          /\ Cardinality(members) <= MaxMembers

(***************************************************************************)
(* The abstract set, and the properties of the specification.              *)
(***************************************************************************)

\* the smallest member x >= b, the sentinel when there is none
Successor(b) ==
    LET later == {x \in members : Le(b, x)}
    IN  IF later = {} THEN BMAP_INVALID_OFF
        ELSE CHOOSE x \in later : \A y \in later : Le(x, y)

\* p8 and p32 with a geometry that no undefined shift went into
Defined(i) == i \notin {"p8", "p32"} \/ wideshift = "zero" \/ Lt(universe, MaxSmall)

\* the variants whose handle exists and has a defined geometry
Impl == {i \in Variants : Defined(i) /\ heap = "ok"}

\* C1: for p64v3r, p64v3r3, p8 and p32, after in-range set calls, first_set(b)
\* for every b below the universe size is the smallest member >= b, and the
\* sentinel exactly when there is no such member.
C1_BottomUpCorrect ==
    op = "first_set" =>
        \A i \in {"p64v3r", "p64v3r3", "p8", "p32"} \cap Impl :
            \A b \in Froms : Lt(b, universe) => first_set(i, b) = Successor(b)

RECURSIVE foreach(_, _, _)
\* README: "last = 0; while ((last = first_set(last)) != INVALID) last++;" from
\* cursor last on, as the sequence of the values first_set returns; more is
\* the number of calls left to look at
foreach(i, last, more) ==
    LET r == first_set(i, last)
    IN  IF r = BMAP_INVALID_OFF \/ more = 1 THEN <<r>>
        ELSE <<r>> \o foreach(i, Plus32(r, I(1)), more - 1)

RECURSIVE Ascending(_, _)
\* the members from b on in ascending order, followed by the sentinel
Ascending(b, more) ==
    LET x == Successor(b)
    IN  IF x = BMAP_INVALID_OFF \/ more = 1 THEN <<x>>
        ELSE <<x>> \o Ascending(Plus(x, I(1)), more - 1)

\* C2: the enumeration loop over a populated bitmap returns the members in
\* strictly ascending order, one per call, then the sentinel: it ends after
\* |members| + 1 calls.
C2_RoundTrip ==
    op = "first_set" =>
        \A i \in Impl :
            foreach(i, I(0), Cardinality(members) + 2)
                = Ascending(I(0), Cardinality(members) + 2)

\* the number of words of level l's array
SlotsOf(pb, l) ==
    Minus(IF l + 1 < pb.levels THEN pb.lvl[l + 2] ELSE pb.total, pb.lvl[l + 1])

\* the indices of the words of level l that are not zero
NonZero(pb, l) ==
    {Minus(a, pb.lvl[l + 1]) :
        a \in {x \in DOMAIN pb.mem : /\ Le(pb.lvl[l + 1], x)
                                      /\ Lt(Minus(x, pb.lvl[l + 1]), SlotsOf(pb, l))
                                      /\ pb.mem[x] # {}}}

\* level up is the summary of level down, in words of 2^lg bits: bit j of
\* level up is set iff word j of level down is not zero
Summarises(pb, up, down, lg) ==
    /\ \A j \in NonZero(pb, down) :
           LowBits(j, lg) \in Load(pb, up, Shr(j, lg), 2^lg)
    /\ \A s \in NonZero(pb, up) :
           \A k \in Load(pb, up, s, 2^lg) :
               LET j == Plus(Shl(s, lg), I(k))
               IN  Lt(j, SlotsOf(pb, down)) => j \in NonZero(pb, down)

\* C3: after alloc and any set calls, in every summary level, bit j is set
\* iff word j of the level below (k+1 in the fixed variants, k-1 in the
\* dynamic ones) is not zero.
C3_Summary ==
    /\ \A k \in 0..(P64_LEVELS - 2) : Summarises(p64, k, k + 1, 6)
    /\ \A k \in 0..(p64v2_levels - 2) : Summarises(p64v2, k, k + 1, log2_64)
    /\ \A k \in 1..(p64v3.levels - 1) : Summarises(p64v3, k, k - 1, log2_64)
    /\ \A k \in 1..(p8.levels - 1) : Summarises(p8, k, k - 1, log2_8)
    /\ \A k \in 1..(p32.levels - 1) : Summarises(p32, k, k - 1, log2_32)

\* the same with p8 and p32 left out where their geometry is undefined
SummaryWhereDefined ==
    /\ \A k \in 0..(P64_LEVELS - 2) : Summarises(p64, k, k + 1, 6)
    /\ \A k \in 0..(p64v2_levels - 2) : Summarises(p64v2, k, k + 1, log2_64)
    /\ \A k \in 1..(p64v3.levels - 1) : Summarises(p64v3, k, k - 1, log2_64)
    /\ Defined("p8") => \A k \in 1..(p8.levels - 1) : Summarises(p8, k, k - 1, log2_8)
    /\ Defined("p32") => \A k \in 1..(p32.levels - 1) : Summarises(p32, k, k - 1, log2_32)

\* C4: for the same universe and the same set calls, the eleven
\* implementations return the same first_set(from) for every from.
C4_VariantsAgree ==
    op = "first_set" =>
        \A b \in Froms : \A i \in Impl : first_set(i, b) = first_set("dumb", b)

\* C5: p64, p64v2 and p64-naive return the smallest member >= b for every b
\* below the universe size, the sentinel when there is none; p64 with its
\* level-5 peek returns what p64-naive returns.
C5_TopDownCorrect ==
    op = "first_set" =>
        \A b \in Froms :
            /\ Lt(b, universe) =>
                   \A i \in {"p64", "p64v2", "p64-naive"} : first_set(i, b) = Successor(b)
            /\ first_set("p64", b) = first_set("p64-naive", b)

\* C6: first_set(from) is the sentinel for every from >= universe size, in
\* every variant and every state.
C6_Boundary ==
    op = "first_set" =>
        \A b \in Froms : Le(universe, b) =>
            \A i \in Impl : first_set(i, b) = BMAP_INVALID_OFF

\* C7: a fresh bitmap is the empty set for every universe size: isset(b) is
\* false and first_set(b) the sentinel for every b below it, in every variant.
C7_FreshIsEmpty ==
    members = {} =>
        \A b \in Froms : Lt(b, universe) =>
            \A i \in Impl : ~isset(i, b) /\ first_set(i, b) = BMAP_INVALID_OFF

\* the handle with every level but level f cleared
FinestOnly(pb, f) ==
    [pb EXCEPT !.mem =
        [a \in {x \in DOMAIN pb.mem : /\ Le(pb.lvl[f + 1], x)
                                       /\ Lt(Minus(x, pb.lvl[f + 1]), SlotsOf(pb, f))}
            |-> pb.mem[a]]]

\* C8: in every state reachable by in-range set calls, isset(b) holds iff
\* set(b) has been called, for every b below the universe size, and isset
\* reads the finest level only (level 5 in the fixed variants, level 0 in
\* the dynamic ones).
C8_Membership ==
    \A b \in Froms : (heap = "ok" /\ Lt(b, universe)) =>
        /\ \A i \in Variants : isset(i, b) = (b \in members)
        /\ p64_isset(FinestOnly(p64, P64_LEVELS - 1), b) = p64_isset(p64, b)
        /\ p64v2_isset(FinestOnly(p64v2, p64v2_levels - 1), b) = p64v2_isset(p64v2, b)
        /\ p64v3_isset(FinestOnly(p64v3, 0), b) = p64v3_isset(p64v3, b)
        /\ p8_isset(FinestOnly(p8, 0), b) = p8_isset(p8, b)
        /\ p32_isset(FinestOnly(p32, 0), b) = p32_isset(p32, b)

\* the same for the universes an unsigned int can hold
MembershipBelowFull == Lt(universe, Full) => C8_Membership

\* C9: in a fixed state, for b1 <= b2: when first_set(b1) is x, x is not the
\* sentinel and x >= b2, then first_set(b2) is x.
C9_MonotonicScan ==
    op = "first_set" =>
        \A i \in Impl : \A b1 \in Froms :
            LET x == first_set(i, b1)
            IN  x # BMAP_INVALID_OFF =>
                    \A b2 \in Froms : Le(b1, b2) /\ Le(b2, x) => first_set(i, b2) = x

\* C10: set(b) of a bit that is a member already leaves every word of every
\* level as it was, and with the words what isset and first_set return.
C10_SetIdempotent ==
    [][(op' = "set" /\ members' = members) =>
           UNCHANGED <<simple, p64, p64v2, p64v3, p8, p32>>]_vars

\* set(b) has been called a second time on a bitmap with two members
C10_Witness ==
    op = "set" /\ dup /\ Cardinality(members) = 2

\* every bit of every word of the handle is still set after the step
Grows(h) == \A a \in DOMAIN h : a \in DOMAIN h' /\ h[a] \subseteq h'[a]

\* C11: once isset(b) is true it stays true after every later set, isset
\* and first_set call; no call clears a bit of any word at any level.
C11_Monotonic ==
    [][/\ Grows(simple.mem) /\ Grows(p64.mem) /\ Grows(p64v2.mem)
       /\ Grows(p64v3.mem) /\ Grows(p8.mem) /\ Grows(p32.mem)
       /\ \A b \in SomeBits : \A i \in Variants :
              (Lt(b, universe) /\ isset(i, b)) => isset(i, b)']_vars

\* a second bit has been set into a word that held one, and queries followed
C11_Witness ==
    op = "first_set" /\ universe = I(121) /\ members = {I(0), I(1)}

\* C12: for every universe size from 1 to 2^32 the sentinel is no valid bit
\* index, so it is never a member, and a first_set result equal to the
\* sentinel means that there is no member >= b.
C12_Sentinel ==
    /\ BMAP_INVALID_OFF \notin members
    /\ op = "first_set" =>
           \A i \in Impl : \A b \in Froms :
               first_set(i, b) = BMAP_INVALID_OFF => \A x \in members : Lt(x, b)

\* C13: when the memory allocation fails, alloc reports the failure to the
\* caller and stores nothing through the null pointer.
C13_AllocFailure == heap = "null" => nullstores = {}

\* the word simple_first_set reads before its loop lies inside the allocation
\* (the loop's own reads are below maxslot, whole allocated words)
simple_first_read_inside(bmap, b) ==
    Le(Plus(Shl(SIMPLE_SLOT(b), 3), I(8)), bmap.bytes)

\* every word the run reads lies in the array of the level it is read from
InBounds(i, b) ==
    LET r == search(i, b)
    IN  \A k \in DOMAIN r.path : Lt(r.path[k].slot, SlotsOf(handle(i), r.path[k].l))

\* a finished run returns what first_set returns
RunsAreSearches ==
    \A i \in Pyramids \cap Impl : \A b \in Froms :
        search(i, b).done => search(i, b).ret = first_set(i, b)

\* C14: for every universe size n >= 1 and every b <= n, every slot index a
\* first_set reads at any level is below the number of slots reserved for that
\* level (pyramids), and simple reads inside its array.
C14_SearchInBounds ==
    \A b \in Froms : Le(b, universe) =>
        /\ \A i \in Pyramids \cap Impl : InBounds(i, b)
        /\ heap = "ok" => simple_first_read_inside(simple, b)

\* the allocation ends where the pointer walk over the levels ends
Sized(i) == alloc_slots(i, universe) = handle(i).total

\* every level has an array of its own: the walk gives each level at least one
\* slot, so the arrays lie one behind the other
Disjoint(i) == \A l \in 0..(handle(i).levels - 1) : Lt(I(0), SlotsOf(handle(i), l))

\* the slot addressed for b at level l belongs to level l
Addressed(i, b) ==
    \A l \in 0..(handle(i).levels - 1) : Lt(slot_of(i, b, l), SlotsOf(handle(i), l))

\* the earlier revision of p64v3_alloc asks for one slot less than its walk
\* hands out: the slot of the topmost level lies behind the allocation
EarlierSizingShort ==
    heap = "ok" => Plus(p64v3_alloc_slots_earlier(universe), I(1)) = p64v3.total

\* C15: alloc sizes its allocation for the arrays of all levels, the topmost
\* included, the arrays are pairwise disjoint, and every slot set and isset
\* address for a b below the universe size lies inside the array of its level.
C15_AllocHoldsLevels ==
    heap = "ok" =>
        \A i \in Pyramids :
            /\ Sized(i)
            /\ Disjoint(i)
            /\ \A b \in SomeBits : Lt(b, universe) => Addressed(i, b)

\* the same where no shift count reaches the width and the size fits 32 bits
AllocHoldsLevelsWhereDefined ==
    heap = "ok" =>
        \A i \in Pyramids :
            (Defined(i) /\ (i \in {"p8", "p32"} => Lt(universe, Full))) =>
                /\ Sized(i)
                /\ Disjoint(i)
                /\ \A b \in SomeBits : Lt(b, universe) => Addressed(i, b)

\* the run comes back to a level with the cursor it had there before: from
\* then on it repeats itself
Repeats(r) ==
    \E j, k \in DOMAIN r.path :
        j < k /\ r.path[j].l = r.path[k].l /\ r.path[j].b = r.path[k].b

\* C16: every first_set call returns, in every reachable state, for every b
\* and every variant: neither the recursive search nor the loops that step
\* the level index back and forth go on forever.  (dumb and simple run a
\* counted loop over [b, sz) and [slot, maxslot).)
C16_Terminates ==
    (heap = "ok" /\ op = "first_set") =>
        \A i \in Pyramids : \A b \in Froms : search(i, b).done

\* the run has gone to a coarser level and to a finer level
BackAndForth(r) ==
    /\ \E k \in 1..(Len(r.path) - 1) : r.path[k + 1].l > r.path[k].l
    /\ \E k \in 1..(Len(r.path) - 1) : r.path[k + 1].l < r.path[k].l

\* a recursive search and the two loops have each stepped back and forth and
\* returned a member
C16_Witness ==
    /\ heap = "ok" /\ op = "first_set" /\ universe = I(1000)
    /\ \A i \in {"p64", "p64v3", "p64v3r"} :
          \E b \in Froms : /\ search(i, b).done
                           /\ BackAndForth(search(i, b))
                           /\ search(i, b).ret \in members

\* the same for the handles whose geometry no undefined shift went into
TerminatesWhereDefined ==
    \A i \in Pyramids \cap Impl : \A b \in Froms :
        search(i, b).done /\ ~Repeats(search(i, b))

\* along the run the cursor never decreases
CursorGrows(r) ==
    \A k \in 1..(Len(r.path) - 1) : Le(r.path[k].b, r.path[k + 1].b)

\* at every step of the run no member lies between the argument and the cursor
NothingSkipped(r, b0) ==
    \A k \in DOMAIN r.path :
        \A x \in members : ~(Le(b0, x) /\ Lt(x, r.path[k].b))

\* C17: the search goes down with cursor max(b, m) after a hit and up with
\* cursor (slot + 1) << bps(level) after a miss; so within one first_set call
\* the cursor never decreases, and at every step no member lies in
\* [b0, cursor), b0 being the argument of the call.
C17_StepRule ==
    (heap = "ok" /\ op = "first_set") =>
        \A i \in Pyramids \cap Impl : \A b \in Froms :
            CursorGrows(search(i, b)) /\ NothingSkipped(search(i, b), b)

\* the same for the universes of at most 2^30 bits
StepRuleBelowWrap ==
    (heap = "ok" /\ op = "first_set" /\ Le(universe, MaxSmall)) =>
        \A i \in Pyramids \cap Impl : \A b \in Froms :
            Le(b, universe) =>
                CursorGrows(search(i, b)) /\ NothingSkipped(search(i, b), b)

\* C18: the iterative search p64v3_first_set and the recursive search
\* p64v3r_first_set return the same value for every universe size, every
\* reachable state and every b <= universe size.
C18_IterativeIsRecursive ==
    heap = "ok" =>
        \A b \in Froms : Le(b, universe) => first_set("p64v3", b) = first_set("p64v3r", b)

\* the two agree on the members they find: in a universe of at most 2^30 bits
\* and for b below its size, whenever both return a bit below the size it is
\* the same bit
IterativeIsRecursiveOnMembers ==
    (heap = "ok" /\ Le(universe, MaxSmall)) =>
        \A b \in Froms :
            (/\ Lt(b, universe)
             /\ Lt(first_set("p64v3", b), universe)
             /\ Lt(first_set("p64v3r", b), universe))
                => first_set("p64v3", b) = first_set("p64v3r", b)

\* C19: p64v3r, p64v3r2 and p64v3r3 return the same value for every universe
\* size, every reachable state and every b <= universe size.
C19_EntriesAgree ==
    heap = "ok" =>
        \A b \in Froms : Le(b, universe) =>
            /\ first_set("p64v3r2", b) = first_set("p64v3r", b)
            /\ first_set("p64v3r3", b) = first_set("p64v3r", b)

\* C20: simple_first_set returns the same value as dumb_first_set for every
\* universe size, every reachable state and every b in [0, universe size], and
\* both return the smallest member in [b, universe size) or INVALID.
C20_SimpleIsDumb ==
    heap = "ok" =>
        \A b \in Froms : Le(b, universe) =>
            /\ simple_first_set(simple, b) = dumb_first_set(simple, b)
            /\ dumb_first_set(simple, b) = Successor(b)

\* the same for the universes of at most 2^30 bits, with nothing but zeroes
\* behind the allocation
SimpleIsDumbBelowWrap ==
    (heap = "ok" /\ Le(universe, MaxSmall) /\ simple.past = {}) =>
        \A b \in Froms : Le(b, universe) =>
            /\ simple_first_set(simple, b) = dumb_first_set(simple, b)
            /\ dumb_first_set(simple, b) = Successor(b)

\* C21: first_set(b) with b equal to the universe size or larger returns
\* INVALID at once: no slot of any level is read before the return.
C21_PastEndImmediate ==
    heap = "ok" =>
        \A b \in Froms : Le(universe, b) =>
            /\ \A i \in Variants \cap Impl : first_set(i, b) = BMAP_INVALID_OFF
            /\ \A i \in Pyramids \cap Impl : search(i, b).path = << >>

\* the same for b larger than the universe size, in the searches that begin
\* with the guard "b > pb->sz"
BeyondEndImmediate ==
    heap = "ok" =>
        \A b \in Froms : Lt(universe, b) =>
            \A i \in (Pyramids \ {"p64-naive"}) \cap Impl :
                first_set(i, b) = BMAP_INVALID_OFF /\ search(i, b).path = << >>

\* the cursor of the run exceeds the universe size at some step
Overshoots(r) == \E k \in DOMAIN r.path : Lt(universe, r.path[k].b)

\* C22: whenever the cursor exceeds the universe size at any point of a
\* first_set call (after the advance behind b's word or after an ascend), the
\* call returns INVALID.
C22_OvershootIsInvalid ==
    (heap = "ok" /\ op = "first_set") =>
        \A i \in Pyramids \cap Impl : \A b \in Froms :
            Overshoots(search(i, b)) => search(i, b).ret = BMAP_INVALID_OFF

\* the call does not restart below its argument and returns no bit below it
NotBelow(i, b) ==
    /\ i \in Pyramids => \A k \in DOMAIN search(i, b).path : Le(b, search(i, b).path[k].b)
    /\ first_set(i, b) = BMAP_INVALID_OFF \/ Le(b, first_set(i, b))

\* C23: for every universe size up to 2^32 and every b below it, the advance
\* of the cursor to the start of the next slot does not wrap around 2^32, so
\* first_set never restarts below its argument and never returns a bit
\* smaller than b.
C23_NoWrap ==
    (heap = "ok" /\ op = "first_set") =>
        \A i \in Variants \cap Impl : \A b \in Froms : Lt(b, universe) => NotBelow(i, b)

\* the same for the universes of at most 2^30 bits
NoWrapBelowWrap ==
    (heap = "ok" /\ op = "first_set" /\ Le(universe, MaxSmall)) =>
        \A i \in Variants \cap Impl : \A b \in Froms : Lt(b, universe) => NotBelow(i, b)

\* log2 of the bits of a word of the variant
word_log(i) == CASE i = "p8" -> log2_8 [] i = "p32" -> log2_32 [] OTHER -> log2_64

\* the level that is k levels above the bitmap
level_above(i, k) == IF i \in {"p64", "p64-naive", "p64v2"} THEN P64_LEVELS - 1 - k ELSE k

\* a / 2^lg rounded up
CeilShr(a, lg) == Shr(Plus(a, Minus(Shl(I(1), lg), I(1))), lg)

mask_of(i, b, l) ==
    CASE i \in {"p64", "p64-naive"} -> P64_MASK(b, l)
      [] i = "p64v2" -> p64v2_mask(b, l)
      [] i \in {"p64v3", "p64v3r", "p64v3r2", "p64v3r3"} -> p64v3_mask(b, l)
      [] i = "p8" -> p8_mask(b, l)
      [] i = "p32" -> p32_mask(b, l)

\* at least one level, one slot at the top, more than one slot below it
Pyramidal(pb) ==
    /\ pb.levels >= 1
    /\ SlotsOf(pb, pb.levels - 1) = I(1)
    /\ \A l \in 0..(pb.levels - 2) : Lt(I(1), SlotsOf(pb, l))

\* every member has its bit in every level 0..levels-1
WrittenInAllLevels(i) ==
    \A b \in members : \A l \in 0..(handle(i).levels - 1) :
        mask_of(i, b, l) \in Load(handle(i), l, slot_of(i, b, l), 2^word_log(i))

\* C25: in the dynamic variants (p64v3 family, p8, p32) the level count is at
\* least 1, the topmost level has exactly one slot and every level below it
\* has more than one, for every universe size, and set writes the levels
\* 0..levels-1.
C25_Levels ==
    heap = "ok" =>
        \A i \in {"p64v3", "p8", "p32"} : Pyramidal(handle(i)) /\ WrittenInAllLevels(i)

\* the same where no shift count reaches the width of the shifted value
LevelsWhereDefined ==
    heap = "ok" =>
        \A i \in {"p64v3", "p8", "p32"} \cap Impl :
            Pyramidal(handle(i)) /\ WrittenInAllLevels(i)

\* the variants that look at the bitmap word of b first
Peeking == {"p64", "p64v2", "p64v3", "p64v3r2", "p64v3r3"}

\* the bits at and above b in the bitmap word that contains b
WordFrom(i, b) ==
    MaskFrom(LowBits(b, 6), Load(handle(i), level_above(i, 0), Shr(b, 6), 64))

\* the word of b is a slot of the bitmap level and has a set bit at or above b
FastCase(i, b) ==
    /\ Lt(Shr(b, 6), SlotsOf(handle(i), level_above(i, 0)))
    /\ WordFrom(i, b) # {}

\* the call returns the lowest such bit and has read the bitmap level only
FastPath(i, b) ==
    /\ first_set(i, b) = Plus(Shl(Shr(b, 6), 6), I(ffs(WordFrom(i, b)) - 1))
    /\ \A k \in DOMAIN search(i, b).path : search(i, b).path[k].l = level_above(i, 0)

\* C26: if the bitmap word containing b has a set bit at a position >= b mod
\* 64, first_set returns 64 * word index + the index of the lowest such bit
\* and reads no slot of any other level (p64, p64v2, p64v3, p64v3r2, p64v3r3).
C26_FastPath ==
    (heap = "ok" /\ op = "first_set") =>
        \A i \in Peeking : \A b \in Froms : FastCase(i, b) => FastPath(i, b)

\* the same for the universes below 2^32 bits
FastPathBelowFull ==
    (heap = "ok" /\ op = "first_set" /\ Lt(universe, Full)) =>
        \A i \in Peeking : \A b \in Froms : FastCase(i, b) => FastPath(i, b)

\* the variants that search by recursion
Recursive == {"p64v3r", "p64v3r2", "p64v3r3", "p8", "p32"}

\* the number of nested calls of the recursive search in first_set(b): the
\* reads of the run, without the peek of p64v3r2 and p64v3r3
Depth(i, b) ==
    LET n == Len(search(i, b).path)
    IN  IF i \in {"p64v3r2", "p64v3r3"} /\ n > 0 THEN n - 1 ELSE n

DepthBound(i) ==
    IF i = "p64v3r2" THEN 3 * handle(i).levels - 2 ELSE 2 * handle(i).levels - 1

LevelsInRange(i, b) ==
    LET r == search(i, b)
    IN  \A k \in DOMAIN r.path : r.path[k].l \in 0..(handle(i).levels - 1)

\* C28: every level index used by first_set stays in [0, levels-1]: the loops
\* index no level outside that range after "l -= 2" / "l += 2", the recursion
\* neither ascends from the topmost level nor descends below level 0, and
\* p64v3r3 does not start its recursion at level 1 in a pyramid of one level.
C28_LevelsInRange ==
    (heap = "ok" /\ op = "first_set") =>
        \A i \in Pyramids : \A b \in Froms : LevelsInRange(i, b)

\* in a pyramid of one level p64v3r3 has stopped after its peek, a loop has
\* gone down and up again, and a recursive search has gone up and down
C28_Witness ==
    /\ heap = "ok" /\ op = "first_set" /\ universe = I(60) /\ members = {I(0)}
    /\ p64v3.levels = 1
    /\ Len(search("p64v3r3", I(1)).path) = 1
    /\ search("p64v3r3", I(1)).ret = BMAP_INVALID_OFF
    /\ \E k \in 1..(Len(search("p64", I(1)).path) - 1) :
           search("p64", I(1)).path[k + 1].l < search("p64", I(1)).path[k].l
    /\ \E k \in 1..(Len(search("p8", I(56)).path) - 1) :
           search("p8", I(56)).path[k + 1].l > search("p8", I(56)).path[k].l

\* the words of the handle that differ between before and after, as addresses
Changed(before, after) ==
    {a \in DOMAIN before.mem \cup DOMAIN after.mem :
        (IF a \in DOMAIN before.mem THEN before.mem[a] ELSE {})
            # (IF a \in DOMAIN after.mem THEN after.mem[a] ELSE {})}

\* the pyramids by handle
Built == {"p64", "p64v2", "p64v3", "p8", "p32"}

\* the word at address a of the handle
WordAt(h, a) == IF a \in DOMAIN h.mem THEN h.mem[a] ELSE {}

\* from before to after, the handle of i has changed at most the bit that b
\* addresses in each level; inside says whether that word must be a slot of
\* its level
OnlyBitsOf(i, b, before, after, inside) ==
    /\ after.sz = before.sz /\ after.levels = before.levels
    /\ after.lvl = before.lvl /\ after.total = before.total
    /\ \A a \in Changed(before, after) :
           \E l \in 0..(before.levels - 1) :
               /\ a = Plus(before.lvl[l + 1], slot_of(i, b, l))
               /\ inside => Lt(slot_of(i, b, l), SlotsOf(before, l))
               /\ WordAt(before, a) \subseteq WordAt(after, a)
               /\ WordAt(after, a) \ WordAt(before, a) \subseteq {mask_of(i, b, l)}

\* the step is a set(b) that keeps to its frame
SetFrame(b, inside) ==
    /\ members' = members \cup {b}
    /\ universe' = universe
    /\ \A i \in Built :
           /\ OnlyBitsOf(i, b, handle(i), handle(i)', inside)
           /\ \A c \in SomeBits :
                  (c # b /\ Lt(c, universe)) => (isset(i, c)' <=> isset(i, c))

\* C29: set(b) with b below the universe size changes at most one bit in each
\* level, the bit that b addresses at that level, and no other word; isset(c)
\* is unchanged for every c # b, and so are the universe size and the level
\* count.
C29_SetFrame ==
    [][op' = "set" => \E b \in SomeBits : Lt(b, universe) /\ SetFrame(b, TRUE)]_vars

\* the same without asking that the addressed word is a slot of its level
SetFrameAddressed ==
    [][op' = "set" => \E b \in SomeBits : Lt(b, universe) /\ SetFrame(b, FALSE)]_vars

\* the step leaves every handle as it is, and the build it runs on
HandlesKept == UNCHANGED <<simple, p64, p64v2, p64v3, p8, p32, universe, wideshift>>

\* the cursors a caller asks again after a query
Probes == {I(0), I(64), I(999)}

\* the handles after the step answer every query as the handles before it
ResultsKept ==
    /\ \A c \in SomeBits :
           /\ simple_isset(simple', c) <=> simple_isset(simple, c)
           /\ p64_isset(p64', c) <=> p64_isset(p64, c)
           /\ p64v2_isset(p64v2', c) <=> p64v2_isset(p64v2, c)
           /\ p64v3_isset(p64v3', c) <=> p64v3_isset(p64v3, c)
           /\ p8_isset(p8', c) <=> p8_isset(p8, c)
           /\ p32_isset(p32', c) <=> p32_isset(p32, c)
    /\ \A b \in Probes :
           /\ dumb_first_set(simple', b) = dumb_first_set(simple, b)
           /\ simple_first_set(simple', b) = simple_first_set(simple, b)
           /\ p64_first_set(p64', b) = p64_first_set(p64, b)
           /\ p64_first_set_no_l5_peek(p64', b) = p64_first_set_no_l5_peek(p64, b)
           /\ p64v2_first_set(p64v2', b) = p64v2_first_set(p64v2, b)
           /\ p64v3_first_set(p64v3', b) = p64v3_first_set(p64v3, b)
           /\ p64v3r_first_set(p64v3', b) = p64v3r_first_set(p64v3, b)
           /\ p64v3r2_first_set(p64v3', b) = p64v3r2_first_set(p64v3, b)
           /\ p64v3r3_first_set(p64v3', b) = p64v3r3_first_set(p64v3, b)
           /\ p8_first_set(p8', b) = p8_first_set(p8, b)
           /\ p32_first_set(p32', b) = p32_first_set(p32, b)

====
